---- MODULE Spec2Model ----
(***************************************************************************)
(* Model of AgentCoordinatorService (src/src/services/agent-coordinator.ts) *)
(* the in-memory agent registry, mailboxes, task delegations and the       *)
(* composeWorkflow loop, and of the blockchain tools                        *)
(* (src/src/tools/blockchain-tools.ts): one tool call at a time, with the   *)
(* RPC requests it issues and the order in which they complete.             *)
(*                                                                          *)
(* The three Maps of the class are modelled with their insertion order:    *)
(* agents is the sequence of the stored RegisteredAgent objects in Map     *)
(* iteration order, messages and delegations are functions whose DOMAIN is *)
(* the set of keys present.  JavaScript values that the code tests for     *)
(* truthiness are tagged records, so that ToBoolean is computed.           *)
(***************************************************************************)
EXTENDS Integers, Sequences, FiniteSets, TLC

(* ------------------------------ bounds --------------------------------- *)
\* Date.now() stays within 0..MaxTime
MaxTime == 1
\* at most MaxTasks delegations are ever stored
MaxTasks == 2
\* at most MaxMail messages wait in the mailboxes together
MaxMail == 2
\* a workflow has at most MaxSteps steps
MaxSteps == 3
\* wei amounts that BigInt(value) can parse are within 0..MaxWei
MaxWei == 30
\* a multi-chain balance request names at most MaxChains chains
MaxChains == 2

(* ------------------------------ inputs --------------------------------- *)
AgentIds == {"a1", "a2"}
Coordinator == "coordinator"
Parties == AgentIds \cup {Coordinator}

CapYield ==
    [id |-> "defi-yield", name |-> "Yield", description |-> "yield optimizer",
     chains |-> <<"base">>, protocols |-> <<"aave">>,
     operations |-> <<"optimize-yield">>]
CapSwap ==
    [id |-> "dex-swap", name |-> "Swap", description |-> "token swaps",
     chains |-> <<"base">>, protocols |-> <<>>, operations |-> <<"swap">>]
CapBare ==
    [id |-> "bare", name |-> "Bare", description |-> "no tags",
     chains |-> <<>>, protocols |-> <<>>, operations |-> <<>>]

\* the descriptors callers register with (Omit<RegisteredAgent, ...> minus id)
Descriptors ==
    { [name |-> "Yield Agent", endpoint |-> "https://yield", capabilities |-> <<CapYield>>],
      [name |-> "Swap Agent", endpoint |-> "https://swap", capabilities |-> <<CapBare, CapSwap>>],
      [name |-> "Idle Agent", endpoint |-> "https://idle", capabilities |-> <<>>] }

\* tags asked of discoverAgents: an operation, a protocol, a chain, a
\* capability id and a tag nobody carries
Tags == {"optimize-yield", "aave", "base", "swap", "defi-yield"}

Deltas == {-500, -50, 0, 50, 500}

StatusSet == {"pending", "in-progress", "completed", "failed"}

(* --------------------------- JavaScript values ------------------------- *)
JsUndefined == [type |-> "undefined"]
JsNull == [type |-> "null"]
JsBool(b) == [type |-> "boolean", b |-> b]
JsNum(n) == [type |-> "number", n |-> n]
JsStr(s) == [type |-> "string", s |-> s]

\* ECMAScript ToBoolean, as applied by `if (result)` and `if (error)`
ToBoolean(v) ==
    CASE v.type = "undefined" -> FALSE
      [] v.type = "null" -> FALSE
      [] v.type = "boolean" -> v.b
      [] v.type = "number" -> v.n # 0
      [] v.type = "string" -> v.s # ""
      [] OTHER -> TRUE

(* ------------------------------- state --------------------------------- *)
VARIABLES
    agents,       \* Map<string, RegisteredAgent>, in iteration order
    messages,     \* Map<string, AgentMessage[]>
    delegations,  \* Map<string, TaskDelegation>
    now,          \* the clock read by new Date() and Date.now()
    wf,           \* the composeWorkflow call in progress: its locals and position
    last,         \* the latest call: its operation, arguments and outcome
    sentSince,    \* per recipient, the sendMessage calls since its last receive
    tool          \* the blockchain tool call in progress: its locals and position

vars == <<agents, messages, delegations, now, wf, last, sentSince, tool>>

(* ----------------------- Map with insertion order ---------------------- *)
MapHas(m, key) == \E i \in DOMAIN m : m[i].id = key

MapIndex(m, key) == CHOOSE i \in DOMAIN m : m[i].id = key

MapGet(m, key) == m[MapIndex(m, key)]

\* Map.prototype.set: an existing key keeps its position, a new key is appended
MapSet(m, key, val) ==
    IF MapHas(m, key)
    THEN [m EXCEPT ![MapIndex(m, key)] = val]
    ELSE Append(m, val)

(* ----------------------------- registerAgent --------------------------- *)
NewAgent(id, d, t) ==
    [id |-> id, name |-> d.name, endpoint |-> d.endpoint,
     capabilities |-> d.capabilities,
     registeredAt |-> t, lastSeen |-> t, reputation |-> 100]

\* a registration that pushes a new entry instead of replacing by key
registerAgentAppend(ags, id, d, t) == Append(ags, NewAgent(id, d, t))

registerAgent(ags, id, d, t) == MapSet(ags, id, NewAgent(id, d, t))

\* Array.from(this.agents.values())
listAgents(ags) == ags

(* ----------------------------- discoverAgents -------------------------- *)
Includes(arr, x) == \E i \in DOMAIN arr : arr[i] = x

hasCapability(agent, capability) ==
    \E c \in DOMAIN agent.capabilities :
        \/ Includes(agent.capabilities[c].operations, capability)
        \/ Includes(agent.capabilities[c].protocols, capability)
        \/ Includes(agent.capabilities[c].chains, capability)

\* the scan of this.agents.values(), pushing the matches in iteration order
RECURSIVE matchingAgents(_, _)
matchingAgents(ags, capability) ==
    IF ags = <<>> THEN <<>>
    ELSE IF hasCapability(Head(ags), capability)
         THEN <<Head(ags)>> \o matchingAgents(Tail(ags), capability)
         ELSE matchingAgents(Tail(ags), capability)

\* the comparator with its operands swapped (ascending order)
compareReputationAscending(a, b) == a.reputation - b.reputation

\* the comparator (a, b) => b.reputation - a.reputation
compareReputation(a, b) == b.reputation - a.reputation

\* an insertion that puts x before the elements it ties with
RECURSIVE InsertSortedBefore(_, _)
InsertSortedBefore(sorted, x) ==
    IF sorted = <<>> THEN <<x>>
    ELSE IF compareReputation(Head(sorted), x) < 0
         THEN <<Head(sorted)>> \o InsertSortedBefore(Tail(sorted), x)
         ELSE <<x>> \o sorted

\* Array.prototype.sort is stable: x goes after every element it does not
\* strictly precede
RECURSIVE InsertSorted(_, _)
InsertSorted(sorted, x) ==
    IF sorted = <<>> THEN <<x>>
    ELSE IF compareReputation(Head(sorted), x) <= 0
         THEN <<Head(sorted)>> \o InsertSorted(Tail(sorted), x)
         ELSE <<x>> \o sorted

RECURSIVE SortByReputation(_)
SortByReputation(s) ==
    IF s = <<>> THEN <<>>
    ELSE InsertSorted(SortByReputation(SubSeq(s, 1, Len(s) - 1)), s[Len(s)])

discoverAgents(ags, capability) == SortByReputation(matchingAgents(ags, capability))

(* ---------------------------- updateReputation ------------------------- *)
Max(a, b) == IF a >= b THEN a ELSE b
Min(a, b) == IF a <= b THEN a ELSE b

\* the sum without the clamp
clampReputationMissing(r, delta) == r + delta

clampReputation(r, delta) == Max(0, Min(200, r + delta))

\* an update that forgets agent.lastSeen = new Date()
updateReputationNoStamp(ags, id, delta, t) ==
    MapSet(ags, id,
           [MapGet(ags, id) EXCEPT !.reputation = clampReputation(@, delta)])

updateReputation(ags, id, delta, t) ==
    MapSet(ags, id,
           [MapGet(ags, id) EXCEPT !.reputation = clampReputation(@, delta),
                                   !.lastSeen = t])

(* ------------------------------ sendMessage ---------------------------- *)
EmptyMap == [k \in {} |-> <<>>]

\* this.messages.get(id) || []
mailbox(msgs, id) == IF id \in DOMAIN msgs THEN msgs[id] ELSE <<>>

stamp(message, t) ==
    [from |-> message.from, to |-> message.to, type |-> message.type,
     payload |-> message.payload, timestamp |-> t]

\* a send that starts the recipient's queue over
sendMessageReplacing(msgs, message, t) ==
    [k \in DOMAIN msgs \cup {message.to} |->
        IF k = message.to THEN <<stamp(message, t)>> ELSE msgs[k]]

sendMessage(msgs, message, t) ==
    [k \in DOMAIN msgs \cup {message.to} |->
        IF k = message.to
        THEN Append(mailbox(msgs, message.to), stamp(message, t))
        ELSE msgs[k]]

(* ----------------------------- receiveMessages ------------------------- *)
\* what receiveMessages returns
receiveReturn(msgs, agentId) == mailbox(msgs, agentId)

\* a receive that forgets this.messages.delete(agentId)
receiveMessagesKeep(msgs, agentId) == msgs

\* this.messages.delete(agentId)
receiveMessages(msgs, agentId) == [k \in DOMAIN msgs \ {agentId} |-> msgs[k]]

(* ------------------------------ delegateTask --------------------------- *)
TaskIds == 1..MaxTasks

\* an identifier source that repeats itself
randomUUIDRepeating(delegs) == {1}

\* crypto.randomUUID(): any identifier not handed out before
randomUUID(delegs) == TaskIds \ DOMAIN delegs

fullDelegation(delegation, taskId) ==
    [taskId |-> taskId, fromAgent |-> delegation.fromAgent,
     toAgent |-> delegation.toAgent, task |-> delegation.task,
     status |-> "pending", result |-> JsUndefined, error |-> JsUndefined]

delegationMessage(delegation, taskId) ==
    [from |-> delegation.fromAgent, to |-> delegation.toAgent,
     type |-> "delegation",
     payload |-> [taskId |-> taskId, task |-> delegation.task]]

\* a store that starts every stored delegation over when one is added
storeDelegationResetting(delegs, delegation, taskId) ==
    [k \in DOMAIN delegs \cup {taskId} |->
        IF k = taskId THEN fullDelegation(delegation, taskId)
        ELSE [delegs[k] EXCEPT !.status = "pending"]]

\* this.delegations.set(taskId, fullDelegation)
storeDelegation(delegs, delegation, taskId) ==
    [k \in DOMAIN delegs \cup {taskId} |->
        IF k = taskId THEN fullDelegation(delegation, taskId) ELSE delegs[k]]

\* a mutation that leaves a completed or failed task as it is
mutateDelegationForward(delegation, status, result, error) ==
    IF delegation.status \in {"completed", "failed"} THEN delegation
    ELSE [delegation EXCEPT
             !.status = status,
             !.result = IF ToBoolean(result) THEN result ELSE @,
             !.error = IF ToBoolean(error) THEN error ELSE @]

(* ----------------------------- updateDelegation ------------------------ *)
\* delegation.status = status; if (result) ...; if (error) ...
mutateDelegation(delegation, status, result, error) ==
    [delegation EXCEPT
        !.status = status,
        !.result = IF ToBoolean(result) THEN result ELSE @,
        !.error = IF ToBoolean(error) THEN error ELSE @]

\* an update that keeps the updated record alone in the store
updateDelegationOnly(delegs, taskId, status, result, error) ==
    [k \in {taskId} |-> mutateDelegation(delegs[taskId], status, result, error)]

updateDelegation(delegs, taskId, status, result, error) ==
    [delegs EXCEPT ![taskId] = mutateDelegation(@, status, result, error)]

\* a response that reads its payload from the stored record
responseMessageStored(delegation, taskId, status, result, error) ==
    [from |-> delegation.toAgent, to |-> delegation.fromAgent,
     type |-> "response",
     payload |-> [taskId |-> taskId, status |-> delegation.status,
                  result |-> delegation.result, error |-> delegation.error]]

responseMessage(delegation, taskId, status, result, error) ==
    [from |-> delegation.toAgent, to |-> delegation.fromAgent,
     type |-> "response",
     payload |-> [taskId |-> taskId, status |-> status,
                  result |-> result, error |-> error]]

(* ------------------------------ getDelegation -------------------------- *)
getDelegation(delegs, taskId) ==
    IF taskId \in DOMAIN delegs THEN delegs[taskId] ELSE JsUndefined

(* ------------------------------ composeWorkflow ------------------------ *)
WorkflowName == "yield-workflow"

WfIdle == [pc |-> "idle", steps |-> <<>>, idx |-> 0, found |-> <<>>,
           results |-> <<>>, out |-> [kind |-> "none"],
           discovered |-> 0, delegated |-> <<>>]

workflowDelegation(step, bestAgent) ==
    [fromAgent |-> Coordinator, toAgent |-> bestAgent.id,
     task |-> [type |-> step.agentCapability,
               description |-> <<"Workflow step: ", WorkflowName>>,
               parameters |-> step.task]]

\* agents.length === 0
noAgentFound(found) == Len(found) = 0

\* a failure that hands back the results gathered so far instead of throwing
workflowFailurePartial(step, results) == [kind |-> "ok", results |-> results]

\* throw new Error(...): the caller gets the error, the local results are dropped
workflowFailure(step, results) ==
    [kind |-> "error",
     message |-> <<"No agent found with capability: ", step.agentCapability>>]

workflowResult(step, bestAgent, taskId) ==
    [step |-> step.agentCapability, agent |-> bestAgent.name, result |-> taskId]

(* --------------------------- blockchain tools -------------------------- *)
\* the keys of CHAINS and the ids of the viem chain objects
ChainNames == {"base", "mainnet", "arbitrum", "optimism", "polygon"}

chainId(chain) ==
    CASE chain = "base" -> 8453
      [] chain = "mainnet" -> 1
      [] chain = "arbitrum" -> 42161
      [] chain = "optimism" -> 10
      [] chain = "polygon" -> 137

\* what an awaited viem request settles to
Fulfilled(value) == [ok |-> TRUE, value |-> value]
Rejected(message) == [ok |-> FALSE, message |-> message]

\* a request handed to the transport of getPublicClient(chain)
request(chain, method, target) == [chain |-> chain, method |-> method, target |-> target]

(* ----- number formatting ----- *)
Digit(d) ==
    CASE d = 0 -> "0" [] d = 1 -> "1" [] d = 2 -> "2" [] d = 3 -> "3" [] d = 4 -> "4"
      [] d = 5 -> "5" [] d = 6 -> "6" [] d = 7 -> "7" [] d = 8 -> "8" [] d = 9 -> "9"

\* bigint.toString(): the decimal digits, most significant first
RECURSIVE toString(_)
toString(n) == IF n < 10 THEN Digit(n) ELSE toString(n \div 10) \o Digit(n % 10)

RECURSIVE Pow10(_)
Pow10(k) == IF k = 0 THEN 1 ELSE 10 * Pow10(k - 1)

\* the last d decimal digits of n, leading zeros kept
RECURSIVE lastDigits(_, _)
lastDigits(n, d) == IF d = 0 THEN "" ELSE lastDigits(n \div 10, d - 1) \o Digit(n % 10)

\* the fraction r / 10^d as digits without trailing zeros (r > 0)
RECURSIVE fractionDigits(_, _)
fractionDigits(r, d) ==
    IF r % 10 = 0 THEN fractionDigits(r \div 10, d - 1) ELSE lastDigits(r, d)

(* ----- results of a tool call ----- *)
\* the call returned value
Return(value) == [kind |-> "return", value |-> value]

NoOutcome == [kind |-> "none"]

\* a tool call entered with params, the requests rpc already issued
Running(name, params, rpc) ==
    [pc |-> "running", name |-> name, params |-> params, rpc |-> rpc,
     out |-> NoOutcome]

\* the tool call t is over with outcome out
Settled(t, out) == [t EXCEPT !.pc = "done", !.out = out]

(* ----- callContract ----- *)
callContractReturn(params, result) ==
    [success |-> TRUE, chain |-> params.chain, contract |-> params.contractAddress,
     function |-> params.functionName, result |-> result]

callContractError(params, message) ==
    [success |-> FALSE, error |-> message, chain |-> params.chain,
     contract |-> params.contractAddress]

(* ----- simulateTransaction ----- *)
\* BigInt(s): the integer whose decimal digits are s, a SyntaxError otherwise
BigInt(s) ==
    IF \E n \in 0..MaxWei : toString(n) = s
    THEN Fulfilled(CHOOSE n \in 0..MaxWei : toString(n) = s)
    ELSE Rejected("Cannot convert " \o s \o " to a BigInt")

\* value ? BigInt(value) : undefined
weiValue(value) == IF ToBoolean(value) THEN BigInt(value.s) ELSE Fulfilled(JsUndefined)

simulateReturn(chain, result, gasEstimate) ==
    [success |-> TRUE, chain |-> chain,
     simulation |-> [willSucceed |-> TRUE, result |-> result.data,
                     estimatedGas |-> toString(gasEstimate)]]

\* a failure that still promises success
simulateErrorOptimistic(chain, message) ==
    [success |-> FALSE, chain |-> chain,
     simulation |-> [willSucceed |-> TRUE, error |-> message]]

simulateError(chain, message) ==
    [success |-> FALSE, chain |-> chain,
     simulation |-> [willSucceed |-> FALSE, error |-> message]]

(* ----- buildTransaction ----- *)
\* a default that leaves the value empty
valueOrEmpty(value) == IF ToBoolean(value) THEN value.s ELSE ""

\* value || '0'
valueOrZero(value) == IF ToBoolean(value) THEN value.s ELSE "0"

buildInstructions == "User should sign and broadcast this transaction using their wallet"

buildTransactionReturn(params, data) ==
    [success |-> TRUE, chain |-> params.chain,
     transaction |-> [to |-> params.contractAddress, data |-> data,
                      value |-> valueOrZero(params.value),
                      chainId |-> chainId(params.chain)],
     instructions |-> buildInstructions]

buildTransactionError(message) == [success |-> FALSE, error |-> message]

(* ----- getAaveData ----- *)
\* a conversion to a fraction of one, not to a percentage
rayToFraction(r) == [m |-> r.m, e |-> r.e - 27]

\* A raw on-chain rate is held as m * 10^e.  Number(r) / 1e27 * 100 then is
\* m * 10^(e - 27 + 2).
rayToPercent(r) == [m |-> r.m, e |-> r.e - 27 + 2]

\* x.toFixed(digits) picks the integer n nearest to x * 10^digits.  Where the
\* decimal value lies exactly halfway between two integers, the binary
\* rounding error of x decides between them: either may come out.
toFixedUnits(x, digits) ==
    IF x.e + digits >= 0
    THEN {x.m * Pow10(x.e + digits)}
    ELSE LET D == Pow10(0 - (x.e + digits))
             q == x.m \div D
             r == x.m % D
         IN IF 2 * r < D THEN {q}
            ELSE IF 2 * r > D THEN {q + 1}
            ELSE {q, q + 1}

\* n / 10^digits written with exactly digits decimals
fixedString(n, digits) ==
    toString(n \div Pow10(digits)) \o "." \o lastDigits(n % Pow10(digits), digits)

toFixed(x, digits) == {fixedString(n, digits) : n \in toFixedUnits(x, digits)}

\* new Date(ms): the instant, kept as its epoch milliseconds
DateOf(ms) == [epochMs |-> ms]

getAaveDataReturn(params, reserveData, supplyAPY, borrowAPY) ==
    [success |-> TRUE, chain |-> params.chain, protocol |-> "Aave V3",
     asset |-> params.asset,
     data |-> [supplyAPY |-> supplyAPY \o "%",
               borrowAPY |-> borrowAPY \o "%",
               aTokenAddress |-> reserveData[8],
               lastUpdate |-> DateOf(reserveData[6] * 1000)]]

getAaveDataError(params, message) ==
    [success |-> FALSE, error |-> message, chain |-> params.chain,
     protocol |-> "Aave V3"]

(* ----- getUniswapPool ----- *)
\* String(n / 10^d): the integer part, then the fraction without trailing zeros
quotientString(n, d) ==
    toString(n \div Pow10(d)) \o
        (IF n % Pow10(d) = 0 THEN "" ELSE "." \o fractionDigits(n % Pow10(d), d))

\* the fee written with two decimals
feePercentFixed(fee) == fixedString(fee \div 100, 2) \o "%"

\* Number(fee) / 10000 + '%'
feePercent(fee) == quotientString(fee, 4) \o "%"

\* the five reads, in the order of the array given to Promise.all
PoolReads == <<"token0", "token1", "fee", "liquidity", "slot0">>

getUniswapPoolReturn(params, values) ==
    [success |-> TRUE, chain |-> params.chain, protocol |-> "Uniswap V3",
     pool |-> params.poolAddress,
     data |-> [token0 |-> values[1], token1 |-> values[2],
               fee |-> feePercent(values[3]),
               liquidity |-> toString(values[4]),
               currentTick |-> values[5][1],
               sqrtPriceX96 |-> toString(values[5][0])]]

\* a failure reported as a success that carries the error
getUniswapPoolErrorPartial(params, message) ==
    [success |-> TRUE, error |-> message, chain |-> params.chain,
     protocol |-> "Uniswap V3"]

\* an error value that does not say which chain was asked
getUniswapPoolErrorBare(params, message) == [success |-> FALSE, error |-> message]

getUniswapPoolError(params, message) ==
    [success |-> FALSE, error |-> message, chain |-> params.chain,
     protocol |-> "Uniswap V3"]

(* ----- getMultiChainBalance ----- *)
\* an object that lists its newest key first
objectSetFront(obj, key, value) ==
    <<[key |-> key, value |-> value]>> \o SelectSeq(obj, LAMBDA entry : entry.key # key)

\* balances[chain] = value on an object whose keys keep their insertion order
objectSet(obj, key, value) ==
    IF \E i \in DOMAIN obj : obj[i].key = key
    THEN [i \in DOMAIN obj |-> IF obj[i].key = key
                               THEN [key |-> key, value |-> value] ELSE obj[i]]
    ELSE Append(obj, [key |-> key, value |-> value])

\* a callback that reports a failed read as an empty balance
balanceSlotSilent(outcome) == IF outcome.ok THEN toString(outcome.value) ELSE "0"

\* what the callback of one chain stores once its read has settled
balanceSlot(outcome) ==
    IF outcome.ok THEN toString(outcome.value) ELSE "Error: " \o outcome.message

getMultiChainBalanceReturn(params, balances) ==
    [success |-> TRUE, address |-> params.address, token |-> params.tokenAddress,
     balances |-> balances]

\* no tool call has been made yet
ToolIdle == [pc |-> "idle", name |-> "none", rpc |-> <<>>, out |-> NoOutcome]

(* ------------------------------- actions ------------------------------- *)
RECURSIVE Waiting(_, _)
Waiting(msgs, keys) ==
    IF keys = {} THEN 0
    ELSE LET k == CHOOSE x \in keys : TRUE
         IN Len(msgs[k]) + Waiting(msgs, keys \ {k})

\* the callers stop sending while MaxMail messages wait to be received
RoomToSend == Waiting(messages, DOMAIN messages) < MaxMail

NoteSent(message) ==
    [sentSince EXCEPT ![message.to] = Append(@, stamp(message, now))]

Init ==
    /\ agents = <<>>
    /\ messages = EmptyMap
    /\ delegations = EmptyMap
    /\ now = 0
    /\ wf = WfIdle
    /\ last = [op |-> "initialize"]
    /\ sentSince = [p \in Parties |-> <<>>]
    /\ tool = ToolIdle

\* time passes between calls
Tick ==
    /\ now < MaxTime
    /\ now' = now + 1
    /\ last' = [op |-> "tick"]
    /\ UNCHANGED <<agents, messages, delegations, wf, sentSince, tool>>

RegisterAgent(id, d) ==
    /\ agents' = registerAgent(agents, id, d, now)
    /\ last' = [op |-> "registerAgent", id |-> id, input |-> d,
                existed |-> MapHas(agents, id),
                before |-> IF MapHas(agents, id)
                           THEN MapGet(agents, id).reputation ELSE -1,
                ret |-> MapGet(agents', id)]
    /\ UNCHANGED <<messages, delegations, now, wf, sentSince, tool>>

DiscoverAgents(tag) ==
    /\ last' = [op |-> "discoverAgents", tag |-> tag,
                ret |-> discoverAgents(agents, tag)]
    /\ UNCHANGED <<agents, messages, delegations, now, wf, sentSince, tool>>

ListAgents ==
    /\ last' = [op |-> "listAgents", ret |-> listAgents(agents)]
    /\ UNCHANGED <<agents, messages, delegations, now, wf, sentSince, tool>>

UpdateReputation(id, delta) ==
    /\ IF ~MapHas(agents, id)
       THEN /\ last' = [op |-> "updateReputation", id |-> id, delta |-> delta,
                        threw |-> "Agent not found"]
            /\ UNCHANGED agents
       ELSE /\ agents' = updateReputation(agents, id, delta, now)
            /\ last' = [op |-> "updateReputation", id |-> id, delta |-> delta,
                        threw |-> "", before |-> MapGet(agents, id).reputation]
    /\ UNCHANGED <<messages, delegations, now, wf, sentSince, tool>>

SendMessage(message) ==
    /\ RoomToSend
    /\ messages' = sendMessage(messages, message, now)
    /\ sentSince' = NoteSent(message)
    /\ last' = [op |-> "sendMessage", message |-> message]
    /\ UNCHANGED <<agents, delegations, now, wf, tool>>

\* a receive that also marks the receiving agent as seen
ReceiveMessagesSeen(agentId) ==
    /\ messages' = receiveMessages(messages, agentId)
    /\ agents' = [i \in DOMAIN agents |->
                     IF agents[i].id = agentId
                     THEN [agents[i] EXCEPT !.lastSeen = now] ELSE agents[i]]
    /\ last' = [op |-> "receiveMessages", id |-> agentId,
                ret |-> receiveReturn(messages, agentId),
                expected |-> sentSince[agentId]]
    /\ sentSince' = [sentSince EXCEPT ![agentId] = <<>>]
    /\ UNCHANGED <<delegations, now, wf, tool>>

ReceiveMessages(agentId) ==
    /\ messages' = receiveMessages(messages, agentId)
    /\ last' = [op |-> "receiveMessages", id |-> agentId,
                ret |-> receiveReturn(messages, agentId),
                expected |-> sentSince[agentId]]
    /\ sentSince' = [sentSince EXCEPT ![agentId] = <<>>]
    /\ UNCHANGED <<agents, delegations, now, wf, tool>>

\* a delegation that suspends after its store write, before its message
DelegateTaskDeferred(delegation) ==
    /\ RoomToSend
    /\ \E taskId \in randomUUID(delegations) :
        /\ delegations' = storeDelegation(delegations, delegation, taskId)
        /\ last' = [op |-> "delegateTask", input |-> delegation,
                    fresh |-> taskId \notin DOMAIN delegations,
                    ret |-> delegations'[taskId]]
    /\ UNCHANGED <<agents, messages, now, wf, sentSince, tool>>

DelegateTask(delegation) ==
    /\ RoomToSend
    /\ \E taskId \in randomUUID(delegations) :
        /\ delegations' = storeDelegation(delegations, delegation, taskId)
        /\ messages' = sendMessage(messages, delegationMessage(delegation, taskId), now)
        /\ sentSince' = NoteSent(delegationMessage(delegation, taskId))
        /\ last' = [op |-> "delegateTask", input |-> delegation,
                    fresh |-> taskId \notin DOMAIN delegations,
                    ret |-> delegations'[taskId]]
    /\ UNCHANGED <<agents, now, wf, tool>>

\* an update that writes the record before it looks the task up
UpdateDelegationUnchecked(taskId, status, result, error) ==
    /\ IF taskId \notin DOMAIN delegations
       THEN /\ last' = [op |-> "updateDelegation", taskId |-> taskId,
                        status |-> status, result |-> result, error |-> error,
                        threw |-> "Delegation not found"]
            /\ delegations' =
                  storeDelegation(delegations,
                                  [fromAgent |-> Coordinator, toAgent |-> Coordinator,
                                   task |-> JsUndefined], taskId)
            /\ UNCHANGED <<messages, sentSince>>
       ELSE /\ RoomToSend
            /\ delegations' = updateDelegation(delegations, taskId, status, result, error)
            /\ messages' = sendMessage(messages,
                               responseMessage(delegations'[taskId], taskId,
                                               status, result, error), now)
            /\ sentSince' = NoteSent(responseMessage(delegations'[taskId], taskId,
                                                     status, result, error))
            /\ last' = [op |-> "updateDelegation", taskId |-> taskId,
                        status |-> status, result |-> result, error |-> error,
                        threw |-> ""]
    /\ UNCHANGED <<agents, now, wf, tool>>

UpdateDelegation(taskId, status, result, error) ==
    /\ IF taskId \notin DOMAIN delegations
       THEN /\ last' = [op |-> "updateDelegation", taskId |-> taskId,
                        status |-> status, result |-> result, error |-> error,
                        threw |-> "Delegation not found"]
            /\ UNCHANGED <<delegations, messages, sentSince>>
       ELSE /\ RoomToSend
            /\ delegations' = updateDelegation(delegations, taskId, status, result, error)
            /\ messages' = sendMessage(messages,
                               responseMessage(delegations'[taskId], taskId,
                                               status, result, error), now)
            /\ sentSince' = NoteSent(responseMessage(delegations'[taskId], taskId,
                                                     status, result, error))
            /\ last' = [op |-> "updateDelegation", taskId |-> taskId,
                        status |-> status, result |-> result, error |-> error,
                        threw |-> ""]
    /\ UNCHANGED <<agents, now, wf, tool>>

GetDelegation(taskId) ==
    /\ last' = [op |-> "getDelegation", taskId |-> taskId,
                ret |-> getDelegation(delegations, taskId)]
    /\ UNCHANGED <<agents, messages, delegations, now, wf, sentSince, tool>>

\* a reading of the discovery from its far end
FoundReversed(list) ==
    [i \in DOMAIN list |-> [id |-> list[Len(list) + 1 - i].id,
                            name |-> list[Len(list) + 1 - i].name]]

\* the agents found by a discovery, as the loop body reads them (id and name)
Found(list) == [i \in DOMAIN list |-> [id |-> list[i].id, name |-> list[i].name]]

\* the call: results = [], then the first step's discovery up to its await
WorkflowStart(steps) ==
    /\ wf.pc \in {"idle", "done", "failed"}
    /\ wf' = IF steps = <<>>
             THEN [WfIdle EXCEPT !.pc = "done", !.out = [kind |-> "ok", results |-> <<>>]]
             ELSE [WfIdle EXCEPT !.pc = "discovered", !.steps = steps, !.idx = 1,
                                 !.found = Found(discoverAgents(agents, steps[1].agentCapability)),
                                 !.discovered = 1]
    /\ last' = [op |-> "composeWorkflow", at |-> "start", steps |-> steps]
    /\ UNCHANGED <<agents, messages, delegations, now, sentSince, tool>>

\* a workflow that takes back the delegations of its earlier steps when a
\* step finds no agent
WorkflowDelegateRollback ==
    /\ wf.pc = "discovered"
    /\ IF noAgentFound(wf.found)
       THEN /\ wf' = [wf EXCEPT !.pc = "failed",
                        !.out = workflowFailure(wf.steps[wf.idx], wf.results)]
            /\ last' = [op |-> "composeWorkflow", at |-> "throw", step |-> wf.idx]
            /\ delegations' = [t \in DOMAIN delegations
                                       \ {wf.delegated[i] : i \in DOMAIN wf.delegated} |->
                                  delegations[t]]
            /\ messages' = [k \in DOMAIN messages \ AgentIds |-> messages[k]]
            /\ sentSince' = [p \in Parties |->
                                IF p \in AgentIds THEN <<>> ELSE sentSince[p]]
       ELSE /\ RoomToSend
            /\ \E taskId \in randomUUID(delegations) :
                LET d == workflowDelegation(wf.steps[wf.idx], wf.found[1]) IN
                /\ delegations' = storeDelegation(delegations, d, taskId)
                /\ messages' = sendMessage(messages, delegationMessage(d, taskId), now)
                /\ sentSince' = NoteSent(delegationMessage(d, taskId))
                /\ wf' = [wf EXCEPT !.pc = "delegated",
                                    !.delegated = Append(@, taskId)]
                /\ last' = [op |-> "composeWorkflow", at |-> "delegate",
                            step |-> wf.idx, ret |-> delegations'[taskId]]
    /\ UNCHANGED <<agents, now, tool>>

\* after the discovery: throw when nothing was found, else delegate to agents[0]
WorkflowDelegate ==
    /\ wf.pc = "discovered"
    /\ IF noAgentFound(wf.found)
       THEN /\ wf' = [wf EXCEPT !.pc = "failed",
                        !.out = workflowFailure(wf.steps[wf.idx], wf.results)]
            /\ last' = [op |-> "composeWorkflow", at |-> "throw", step |-> wf.idx]
            /\ UNCHANGED <<delegations, messages, sentSince>>
       ELSE /\ RoomToSend
            /\ \E taskId \in randomUUID(delegations) :
                LET d == workflowDelegation(wf.steps[wf.idx], wf.found[1]) IN
                /\ delegations' = storeDelegation(delegations, d, taskId)
                /\ messages' = sendMessage(messages, delegationMessage(d, taskId), now)
                /\ sentSince' = NoteSent(delegationMessage(d, taskId))
                /\ wf' = [wf EXCEPT !.pc = "delegated",
                                    !.delegated = Append(@, taskId)]
                /\ last' = [op |-> "composeWorkflow", at |-> "delegate",
                            step |-> wf.idx, ret |-> delegations'[taskId]]
    /\ UNCHANGED <<agents, now, tool>>

\* a workflow that discovers once and keeps its first choice for every step
WorkflowNextCached ==
    /\ wf.pc = "delegated"
    /\ LET results == Append(wf.results,
                             workflowResult(wf.steps[wf.idx], wf.found[1],
                                            wf.delegated[Len(wf.delegated)]))
       IN IF wf.idx < Len(wf.steps)
          THEN wf' = [wf EXCEPT !.pc = "discovered", !.idx = @ + 1,
                        !.results = results,
                        !.discovered = @ + 1]
          ELSE wf' = [wf EXCEPT !.pc = "done", !.results = results,
                        !.out = [kind |-> "ok", results |-> results]]
    /\ last' = [op |-> "composeWorkflow", at |-> "resume", step |-> wf.idx]
    /\ UNCHANGED <<agents, messages, delegations, now, sentSince, tool>>

\* after the delegation: push the step's result, then the next step's
\* discovery, or return the results
WorkflowNext ==
    /\ wf.pc = "delegated"
    /\ LET results == Append(wf.results,
                             workflowResult(wf.steps[wf.idx], wf.found[1],
                                            wf.delegated[Len(wf.delegated)]))
       IN IF wf.idx < Len(wf.steps)
          THEN wf' = [wf EXCEPT !.pc = "discovered", !.idx = @ + 1,
                        !.results = results,
                        !.found = Found(discoverAgents(agents,
                                           wf.steps[wf.idx + 1].agentCapability)),
                        !.discovered = @ + 1]
          ELSE wf' = [wf EXCEPT !.pc = "done", !.results = results,
                        !.out = [kind |-> "ok", results |-> results]]
    /\ last' = [op |-> "composeWorkflow", at |-> "resume", step |-> wf.idx]
    /\ UNCHANGED <<agents, messages, delegations, now, sentSince, tool>>

(* ---------------------------- tool actions ----------------------------- *)
\* the registry is not touched by the tools
registryVars == <<agents, messages, delegations, now, wf, sentSince>>

\* one tool call at a time
ToolFree == tool.pc \in {"idle", "done"}

\* callContract up to its await: readContract encodes the call with the given
\* ABI (which may throw) and sends it
CallContract(params, encoded) ==
    /\ ToolFree
    /\ tool' = IF encoded.ok
               THEN Running("callContract", params,
                            <<request(params.chain, "readContract", params.functionName)>>)
               ELSE Settled(Running("callContract", params, <<>>),
                            Return(callContractError(params, encoded.message)))
    /\ last' = [op |-> "callContract", at |-> "start"]
    /\ UNCHANGED registryVars

CallContractSettled(outcome) ==
    /\ tool.pc = "running"
    /\ tool.name = "callContract"
    /\ tool' = Settled(tool,
                  IF outcome.ok
                  THEN Return(callContractReturn(tool.params, outcome.value))
                  ELSE Return(callContractError(tool.params, outcome.message)))
    /\ last' = [op |-> "callContract", at |-> "settled", outcome |-> outcome]
    /\ UNCHANGED registryVars

\* simulateTransaction up to its first await: the value is converted, then
\* client.call is sent
SimulateTransaction(params) ==
    /\ ToolFree
    /\ LET wei == weiValue(params.value)
       IN tool' = IF wei.ok
                  THEN [pc |-> "calling", name |-> "simulateTransaction",
                        params |-> params,
                        rpc |-> <<request(params.chain, "call", params.to)>>,
                        out |-> NoOutcome, result |-> JsUndefined]
                  ELSE Settled(Running("simulateTransaction", params, <<>>),
                               Return(simulateError(params.chain, wei.message)))
    /\ last' = [op |-> "simulateTransaction", at |-> "start"]
    /\ UNCHANGED registryVars

\* client.call settled: on success client.estimateGas is sent
SimulateCallSettled(outcome) ==
    /\ tool.pc = "calling"
    /\ tool' = IF outcome.ok
               THEN [tool EXCEPT !.pc = "estimating", !.result = outcome.value,
                        !.rpc = Append(@, request(tool.params.chain, "estimateGas",
                                                  tool.params.to))]
               ELSE Settled(tool, Return(simulateError(tool.params.chain,
                                                       outcome.message)))
    /\ last' = [op |-> "simulateTransaction", at |-> "call", outcome |-> outcome]
    /\ UNCHANGED registryVars

\* client.estimateGas settled
SimulateGasSettled(outcome) ==
    /\ tool.pc = "estimating"
    /\ tool' = Settled(tool,
                  IF outcome.ok
                  THEN Return(simulateReturn(tool.params.chain, tool.result,
                                             outcome.value))
                  ELSE Return(simulateError(tool.params.chain, outcome.message)))
    /\ last' = [op |-> "simulateTransaction", at |-> "gas", outcome |-> outcome]
    /\ UNCHANGED registryVars

\* buildTransaction: encodeFunctionData (which may throw), then the return
BuildTransaction(params, encoded) ==
    /\ ToolFree
    /\ tool' = Settled(Running("buildTransaction", params, <<>>),
                  IF encoded.ok
                  THEN Return(buildTransactionReturn(params, encoded.value))
                  ELSE Return(buildTransactionError(encoded.message)))
    /\ last' = [op |-> "buildTransaction", at |-> "settled", outcome |-> encoded]
    /\ UNCHANGED registryVars

\* getAaveData up to its await: the getReserveData read is sent
GetAaveData(params) ==
    /\ ToolFree
    /\ tool' = Running("getAaveData", params,
                       <<request(params.chain, "readContract", "getReserveData")>>)
    /\ last' = [op |-> "getAaveData", at |-> "start"]
    /\ UNCHANGED registryVars

AaveReadSettled(outcome) ==
    /\ tool.pc = "running"
    /\ tool.name = "getAaveData"
    /\ IF outcome.ok
       THEN \E supplyAPY \in toFixed(rayToPercent(outcome.value[2]), 2),
               borrowAPY \in toFixed(rayToPercent(outcome.value[4]), 2) :
                tool' = Settled(tool, Return(getAaveDataReturn(tool.params, outcome.value,
                                                               supplyAPY, borrowAPY)))
       ELSE tool' = Settled(tool, Return(getAaveDataError(tool.params, outcome.message)))
    /\ last' = [op |-> "getAaveData", at |-> "settled", outcome |-> outcome]
    /\ UNCHANGED registryVars

\* getUniswapPool up to its await: the five reads are sent, in array order
GetUniswapPool(params) ==
    /\ ToolFree
    /\ tool' = [pc |-> "reading", name |-> "getUniswapPool", params |-> params,
                rpc |-> [i \in DOMAIN PoolReads |->
                            request(params.chain, "readContract", PoolReads[i])],
                out |-> NoOutcome,
                pending |-> DOMAIN PoolReads,
                fulfilled |-> {},
                values |-> [i \in DOMAIN PoolReads |-> JsUndefined]]
    /\ last' = [op |-> "getUniswapPool", at |-> "start"]
    /\ UNCHANGED registryVars

\* one of the five reads settled.  Promise.all rejects with the first
\* rejection and fulfils, in array order, once every read has fulfilled.
PoolReadSettled(i, outcome) ==
    /\ tool.pc = "reading"
    /\ tool.name = "getUniswapPool"
    /\ i \in tool.pending
    /\ LET values == [tool.values EXCEPT ![i] = outcome.value]
           pending == tool.pending \ {i}
       IN tool' =
            IF ~outcome.ok
            THEN Settled([tool EXCEPT !.pending = pending],
                         Return(getUniswapPoolError(tool.params, outcome.message)))
            ELSE IF pending = {}
            THEN Settled([tool EXCEPT !.pending = pending, !.values = values,
                                      !.fulfilled = @ \cup {i}],
                         Return(getUniswapPoolReturn(tool.params, values)))
            ELSE [tool EXCEPT !.pending = pending, !.values = values,
                              !.fulfilled = @ \cup {i}]
    /\ last' = [op |-> "getUniswapPool", at |-> "settled", read |-> i,
                outcome |-> outcome]
    /\ UNCHANGED registryVars

\* getMultiChainBalance up to its await: chains.map starts one callback per
\* chain, in list order, and each sends its balanceOf read
GetMultiChainBalance(params) ==
    /\ ToolFree
    /\ LET t == [pc |-> "reading", name |-> "getMultiChainBalance", params |-> params,
                 rpc |-> [i \in DOMAIN params.chains |->
                             request(params.chains[i], "readContract", "balanceOf")],
                 out |-> NoOutcome,
                 pending |-> DOMAIN params.chains,
                 balances |-> <<>>,
                 completed |-> <<>>,
                 outcomes |-> [i \in DOMAIN params.chains |-> JsUndefined]]
       IN tool' = IF params.chains = <<>>
                  THEN Settled(t, Return(getMultiChainBalanceReturn(params, <<>>)))
                  ELSE t
    /\ last' = [op |-> "getMultiChainBalance", at |-> "start"]
    /\ UNCHANGED registryVars

\* the read of the i-th callback settled: its try or its catch writes the
\* chain's slot; the call returns when the last callback is over
BalanceReadSettled(i, outcome) ==
    /\ tool.pc = "reading"
    /\ tool.name = "getMultiChainBalance"
    /\ i \in tool.pending
    /\ LET balances == objectSet(tool.balances, tool.params.chains[i],
                                 balanceSlot(outcome))
           t == [tool EXCEPT !.pending = @ \ {i},
                             !.balances = balances,
                             !.completed = Append(@, i),
                             !.outcomes[i] = outcome]
       IN tool' = IF t.pending = {}
                  THEN Settled(t, Return(getMultiChainBalanceReturn(tool.params, balances)))
                  ELSE t
    /\ last' = [op |-> "getMultiChainBalance", at |-> "settled", read |-> i,
                outcome |-> outcome]
    /\ UNCHANGED registryVars

(* ------------------------------ call inputs ---------------------------- *)
MsgTypes == {"request", "response", "event", "delegation"}
Payloads == {JsStr("ping"), JsStr("pong")}

Messages ==
    [from : Parties, to : Parties, type : MsgTypes, payload : Payloads]

DirectTasks ==
    { [type |-> "swap", description |-> "swap tokens", parameters |-> JsNum(1)] }

DelegationInputs == [fromAgent : Parties, toAgent : Parties, task : DirectTasks]

Results == {JsUndefined, JsNull, JsBool(FALSE), JsNum(0), JsStr(""), JsStr("done")}
Errors == {JsUndefined, JsStr(""), JsStr("boom")}

WfTags == {"base", "swap", "defi-yield"}
Steps == [agentCapability : WfTags, task : {JsStr("params")}]

RECURSIVE SeqsUpTo(_, _)
SeqsUpTo(S, n) ==
    IF n = 0 THEN {<<>>}
    ELSE SeqsUpTo(S, n - 1) \cup
         {Append(s, x) : s \in {t \in SeqsUpTo(S, n - 1) : Len(t) = n - 1}, x \in S}

Workflows == SeqsUpTo(Steps, MaxSteps)

(* ------------------------------ tool inputs ---------------------------- *)
ToolChains == {"base", "mainnet"}

\* a revert and a transport failure
ErrorMessages == {"execution reverted", "fetch failed"}
Rejections == {Rejected(m) : m \in ErrorMessages}

\* encodeFunctionData: the calldata, or the function is not on the ABI
EncodeOutcomes == {Fulfilled("0xa9059cbb"), Rejected("Function not found on ABI")}

CallContractParams ==
    [chain : ToolChains, contractAddress : {"0xToken"}, functionName : {"balanceOf"}]
ReadOutcomes == {Fulfilled(JsNum(42))} \cup Rejections

SimulateParams ==
    [chain : ToolChains, from : {"0xFrom"}, to : {"0xTo"}, data : {"0x01"},
     value : {JsUndefined, JsStr(""), JsStr("25"), JsStr("abc")}]
CallOutcomes == {Fulfilled([data |-> "0xbeef"])} \cup Rejections
GasOutcomes == {Fulfilled(21000), Fulfilled(54321)} \cup Rejections

BuildParams ==
    [chain : ChainNames, contractAddress : {"0xToken"}, functionName : {"transfer"},
     value : {JsUndefined, JsStr(""), JsStr("25")}]

AaveParams == [chain : ToolChains, asset : {"0xUSDC"}]

\* rates m * 10^e: 0, 5e25, 3.14e25, 1.234e25, 1.235e25, 1.236e25, 9.999e23, 1.2e27
RayRates ==
    {[m |-> 0, e |-> 22], [m |-> 5, e |-> 25], [m |-> 314, e |-> 23],
     [m |-> 1234, e |-> 22], [m |-> 1235, e |-> 22], [m |-> 1236, e |-> 22],
     [m |-> 9999, e |-> 20], [m |-> 12, e |-> 26]}

\* the tuple returned by getReserveData, by position
ReserveData(liquidityRate, borrowRate) ==
    [k \in 0..14 |->
        CASE k = 2 -> liquidityRate
          [] k = 4 -> borrowRate
          [] k = 6 -> 86400
          [] k = 8 -> "0xaToken"
          [] OTHER -> 0]

AaveOutcomes ==
    {Fulfilled(ReserveData(l, b)) : l \in RayRates, b \in RayRates} \cup Rejections

PoolParams == [chain : ToolChains, poolAddress : {"0xPool"}]

Fees == {1, 100, 500, 3000, 10000, 12345}

\* the tuple returned by slot0, by position
Slot0 == [k \in 0..6 |-> CASE k = 0 -> 79228 [] k = 1 -> -887 [] OTHER -> 0]

PoolValues(i) ==
    CASE i = 1 -> {"0xWETH"}
      [] i = 2 -> {"0xUSDC"}
      [] i = 3 -> Fees
      [] i = 4 -> {123456}
      [] i = 5 -> {Slot0}

PoolOutcomes(i) == {Fulfilled(v) : v \in PoolValues(i)} \cup Rejections

MultiChains == {"base", "mainnet", "polygon"}

BalanceParams ==
    [address : {"0xWallet"}, tokenAddress : {"0xToken"},
     chains : SeqsUpTo(MultiChains, MaxChains)]

BalanceOutcomes == {Fulfilled(0), Fulfilled(1500)} \cup Rejections

\* every tool, every input
NextTools ==
    \/ \E p \in CallContractParams, e \in EncodeOutcomes : CallContract(p, e)
    \/ \E o \in ReadOutcomes : CallContractSettled(o)
    \/ \E p \in SimulateParams : SimulateTransaction(p)
    \/ \E o \in CallOutcomes : SimulateCallSettled(o)
    \/ \E o \in GasOutcomes : SimulateGasSettled(o)
    \/ \E p \in BuildParams, e \in EncodeOutcomes : BuildTransaction(p, e)
    \/ \E p \in AaveParams : GetAaveData(p)
    \/ \E o \in AaveOutcomes : AaveReadSettled(o)
    \/ \E p \in PoolParams : GetUniswapPool(p)
    \/ \E i \in DOMAIN PoolReads : \E o \in PoolOutcomes(i) : PoolReadSettled(i, o)
    \/ \E p \in BalanceParams : GetMultiChainBalance(p)
    \/ \E i \in 1..MaxChains, o \in BalanceOutcomes : BalanceReadSettled(i, o)

SpecTools == Init /\ [][NextTools]_vars

(* ---------------------------- specifications --------------------------- *)
\* every operation, every input
Next ==
    \/ Tick
    \/ \E id \in AgentIds, d \in Descriptors : RegisterAgent(id, d)
    \/ \E tag \in Tags : DiscoverAgents(tag)
    \/ ListAgents
    \/ \E id \in AgentIds, delta \in Deltas : UpdateReputation(id, delta)
    \/ \E m \in Messages : SendMessage(m)
    \/ \E id \in Parties : ReceiveMessages(id)
    \/ \E d \in DelegationInputs : DelegateTask(d)
    \/ \E t \in TaskIds, s \in StatusSet, r \in Results, e \in Errors :
          UpdateDelegation(t, s, r, e)
    \/ \E t \in TaskIds : GetDelegation(t)
    \/ \E steps \in Workflows : WorkflowStart(steps)
    \/ WorkflowDelegate
    \/ WorkflowNext
    \/ NextTools

Spec == Init /\ [][Next]_vars

\* the agent store: registration, reputation, discovery
NextRegistry ==
    \/ Tick
    \/ \E id \in AgentIds, d \in Descriptors : RegisterAgent(id, d)
    \/ \E tag \in Tags : DiscoverAgents(tag)
    \/ ListAgents
    \/ \E id \in AgentIds, delta \in Deltas : UpdateReputation(id, delta)

SpecRegistry == Init /\ [][NextRegistry]_vars

\* mailboxes and delegations at one reading of the clock, with one agent
\* descriptor, one sender of direct messages and one delegating agent
YieldDescriptor ==
    [name |-> "Yield Agent", endpoint |-> "https://yield", capabilities |-> <<CapYield>>]

MessagingMessages ==
    [from : {"a2"}, to : {"a1"}, type : {"request", "event"}, payload : {JsStr("ping")}]

MessagingDelegations == [fromAgent : {"a1"}, toAgent : {"a2"}, task : DirectTasks]

NextMessaging ==
    \/ RegisterAgent("a1", YieldDescriptor)
    \/ \E id \in AgentIds : UpdateReputation(id, -500)
    \/ \E m \in MessagingMessages : SendMessage(m)
    \/ \E id \in Parties : ReceiveMessages(id)
    \/ \E d \in MessagingDelegations : DelegateTask(d)
    \/ \E t \in TaskIds : UpdateDelegation(t, "completed", JsStr("done"), JsUndefined)
    \/ \E t \in TaskIds : GetDelegation(t)

SpecMessaging == Init /\ [][NextMessaging]_vars

\* delegation updates that supply every kind of result, or of error
Outcomes ==
    {<<"completed", r, JsUndefined>> : r \in Results}
        \cup {<<"failed", JsUndefined, e>> : e \in Errors}

NextResults ==
    \/ \E d \in MessagingDelegations : DelegateTask(d)
    \/ \E t \in TaskIds, o \in Outcomes : UpdateDelegation(t, o[1], o[2], o[3])
    \/ \E id \in AgentIds : ReceiveMessages(id)
    \/ \E t \in TaskIds : GetDelegation(t)

SpecResults == Init /\ [][NextResults]_vars

\* workflows over a changing agent store
WorkflowSteps == [agentCapability : {"base", "defi-yield"}, task : {JsStr("params")}]

NextWorkflow ==
    \/ \E id \in AgentIds : RegisterAgent(id, YieldDescriptor)
    \/ \E id \in AgentIds : UpdateReputation(id, 100)
    \/ \E steps \in SeqsUpTo(WorkflowSteps, MaxSteps) : WorkflowStart(steps)
    \/ WorkflowDelegate
    \/ WorkflowNext

SpecWorkflow == Init /\ [][NextWorkflow]_vars

\* one agent, its mailbox and the clock
NextPresence ==
    \/ Tick
    \/ RegisterAgent("a1", YieldDescriptor)
    \/ \E delta \in {-50, 50} : UpdateReputation("a1", delta)
    \/ \E m \in MessagingMessages : SendMessage(m)
    \/ \E id \in Parties : ReceiveMessages(id)

SpecPresence == Init /\ [][NextPresence]_vars

\* every registry operation over one agent, one direct message, one
\* delegation input, one delegation outcome and workflows of one step
FrameMessages ==
    [from : {"a2"}, to : {"a1"}, type : {"request"}, payload : {JsStr("ping")}]

FrameOutcomes == {<<"completed", JsStr("done"), JsUndefined>>}

FrameSteps == [agentCapability : {"base"}, task : {JsStr("params")}]

NextFrame ==
    \/ RegisterAgent("a1", YieldDescriptor)
    \/ DiscoverAgents("base")
    \/ UpdateReputation("a1", -500)
    \/ \E m \in FrameMessages : SendMessage(m)
    \/ \E id \in Parties : ReceiveMessages(id)
    \/ \E d \in MessagingDelegations : DelegateTask(d)
    \/ \E t \in TaskIds, o \in FrameOutcomes : UpdateDelegation(t, o[1], o[2], o[3])
    \/ \E step \in FrameSteps : WorkflowStart(<<step>>)
    \/ WorkflowDelegate
    \/ WorkflowNext

SpecFrame == Init /\ [][NextFrame]_vars

\* two agents with the same tags whose reputations meet, discovery, and
\* one-step workflows, while time passes
NextTies ==
    \/ Tick
    \/ \E id \in AgentIds : RegisterAgent(id, YieldDescriptor)
    \/ UpdateReputation("a1", -500)
    \/ DiscoverAgents("base")
    \/ \E step \in FrameSteps : WorkflowStart(<<step>>)
    \/ WorkflowDelegate
    \/ WorkflowNext

SpecTies == Init /\ [][NextTies]_vars

\* delegation updates to every status
StatusDelegations == [fromAgent : {"a1"}, toAgent : {"a2"}, task : {JsStr("params")}]
StatusOutcomes == {<<s, JsUndefined, JsUndefined>> : s \in StatusSet}

NextStatus ==
    \/ \E d \in StatusDelegations : DelegateTask(d)
    \/ \E t \in TaskIds, o \in StatusOutcomes : UpdateDelegation(t, o[1], o[2], o[3])
    \/ \E id \in AgentIds : ReceiveMessages(id)

SpecStatus == Init /\ [][NextStatus]_vars

\* delegation updates that supply a result or an error, or omit both
PayloadOutcomes ==
    {<<"completed", JsStr("done"), JsUndefined>>,
     <<"in-progress", JsUndefined, JsUndefined>>,
     <<"failed", JsUndefined, JsStr("boom")>>}

NextPayload ==
    \/ \E d \in StatusDelegations : DelegateTask(d)
    \/ \E t \in TaskIds, o \in PayloadOutcomes : UpdateDelegation(t, o[1], o[2], o[3])
    \/ \E id \in AgentIds : ReceiveMessages(id)

SpecPayload == Init /\ [][NextPayload]_vars

(* ------------------------------- claims -------------------------------- *)
Range(seq) == {seq[i] : i \in DOMAIN seq}

EntriesOf(id) == {i \in DOMAIN agents : agents[i].id = id}

\* C1: right after registerAgent(id, input), whether or not id was registered
\* before and whatever its reputation was, the agent store (and so listAgents)
\* holds exactly one entry for id; its name, endpoint and capabilities are the
\* input's and its reputation is 100.
C1_ReRegisterReplaces ==
    last.op = "registerAgent" =>
        /\ Cardinality(EntriesOf(last.id)) = 1
        /\ Cardinality({i \in DOMAIN listAgents(agents) :
                            listAgents(agents)[i].id = last.id}) = 1
        /\ \A i \in EntriesOf(last.id) :
            /\ agents[i].name = last.input.name
            /\ agents[i].endpoint = last.input.endpoint
            /\ agents[i].capabilities = last.input.capabilities
            /\ agents[i].reputation = 100

\* an id registered before, with another descriptor and a reputation moved
\* away from 100, is registered again while another agent is stored
C1_Witness ==
    /\ last.op = "registerAgent"
    /\ last.existed
    /\ last.before = 200
    /\ Len(agents) = 2
    /\ agents[1].id = last.id

\* the tags an agent carries: the union of the three arrays of its capabilities
TagsOf(agent) ==
    UNION { Range(agent.capabilities[c].operations)
            \cup Range(agent.capabilities[c].protocols)
            \cup Range(agent.capabilities[c].chains) : c \in DOMAIN agent.capabilities }

C4_ReputationRange ==
    /\ \A i \in DOMAIN agents : agents[i].reputation \in 0..200
    /\ last.op = "registerAgent" =>
          /\ last.ret.reputation = 100
          /\ MapGet(agents, last.id).reputation = 100

\* an update whose sum leaves 0..200 has been applied
C4_Witness ==
    /\ last.op = "updateReputation"
    /\ last.threw = ""
    /\ \/ last.before + last.delta > 200
       \/ last.before + last.delta < 0

\* C5: updateReputation(id, delta) on a registered agent with reputation r
\* sets its reputation to min(200, max(0, r + delta)) and its lastSeen to the
\* current time, and changes no other agent; +500 gives 200, -500 gives 0.
C5_UpdateReputationClamps ==
    [][ (last'.op = "updateReputation" /\ last'.threw = "") =>
          LET id == last'.id
              r == MapGet(agents, id).reputation
              a == MapGet(agents', id)
          IN /\ a.reputation = Min(200, Max(0, r + last'.delta))
             /\ a.lastSeen = now
             /\ last'.delta = 500 => a.reputation = 200
             /\ last'.delta = -500 => a.reputation = 0
             /\ Len(agents') = Len(agents)
             /\ \A i \in DOMAIN agents :
                   agents[i].id # id => agents'[i] = agents[i] ]_vars

\* a registered agent's reputation was raised by 500 to 200 at a later time
\* than its registration, with another agent stored
C5_Witness ==
    /\ last.op = "updateReputation"
    /\ last.threw = ""
    /\ last.delta = 500
    /\ last.before = 100
    /\ Len(agents) = 2
    /\ MapGet(agents, last.id).reputation = 200
    /\ MapGet(agents, last.id).lastSeen > MapGet(agents, last.id).registeredAt

\* C3: receiveMessages(recipient) returns exactly the messages passed to
\* sendMessage for that recipient since its previous receive, in send order,
\* and leaves nothing behind: a receive issued right after it, and a receive
\* for a recipient without a mailbox, return the empty list.
C3_ReceiveDrainsInOrder ==
    /\ \A p \in Parties : receiveReturn(messages, p) = sentSince[p]
    /\ last.op = "receiveMessages" =>
          /\ last.ret = last.expected
          /\ last.id \notin DOMAIN messages
          /\ receiveReturn(messages, last.id) = <<>>

\* a receive returned two messages of different kinds, the earlier first
C3_Witness ==
    /\ last.op = "receiveMessages"
    /\ Len(last.ret) = 2
    /\ last.ret[1].type = "event"
    /\ last.ret[2].type = "response"
    /\ last.id \notin DOMAIN messages

\* C6: updateReputation throws not-found exactly for an unregistered id and
\* updateDelegation exactly for a taskId that is not stored, and a throwing
\* call leaves the agent store, every mailbox and the delegation store as
\* they were.
C6_NotFoundChangesNothing ==
    [][ /\ last'.op = "updateReputation" =>
              (last'.threw = "Agent not found" <=> ~MapHas(agents, last'.id))
        /\ last'.op = "updateDelegation" =>
              (last'.threw = "Delegation not found"
                  <=> last'.taskId \notin DOMAIN delegations)
        /\ (last'.op \in {"updateReputation", "updateDelegation"}
               /\ last'.threw # "") =>
              /\ agents' = agents
              /\ messages' = messages
              /\ delegations' = delegations ]_vars

\* updateDelegation threw for an unknown task while an agent, a delegation
\* and a waiting message were stored
C6_Witness ==
    /\ last.op = "updateDelegation"
    /\ last.threw = "Delegation not found"
    /\ last.taskId \notin DOMAIN delegations
    /\ agents # <<>>
    /\ DOMAIN delegations # {}
    /\ DOMAIN messages # {}

\* C7: delegateTask(d) stores one new delegation under a task id no stored
\* delegation uses, pending, with d's fromAgent, toAgent and task, returns
\* that record (so getDelegation gives status pending), and appends exactly
\* one 'delegation' message from d.fromAgent, with that task id and task, to
\* the mailbox of d.toAgent and to no other mailbox.
C7_DelegateStoresAndNotifies ==
    [][ last'.op = "delegateTask" =>
          LET d == last'.input
              r == last'.ret
              old == mailbox(messages, d.toAgent)
              new == mailbox(messages', d.toAgent)
          IN /\ r.taskId \notin DOMAIN delegations
             /\ DOMAIN delegations' = DOMAIN delegations \cup {r.taskId}
             /\ \A k \in DOMAIN delegations : delegations'[k] = delegations[k]
             /\ delegations'[r.taskId] = r
             /\ r.status = "pending"
             /\ r.fromAgent = d.fromAgent
             /\ r.toAgent = d.toAgent
             /\ r.task = d.task
             /\ getDelegation(delegations', r.taskId).status = "pending"
             /\ Len(new) = Len(old) + 1
             /\ SubSeq(new, 1, Len(old)) = old
             /\ new[Len(new)].type = "delegation"
             /\ new[Len(new)].from = d.fromAgent
             /\ new[Len(new)].to = d.toAgent
             /\ new[Len(new)].payload = [taskId |-> r.taskId, task |-> d.task]
             /\ \A p \in Parties \ {d.toAgent} :
                   mailbox(messages', p) = mailbox(messages, p) ]_vars

\* a second delegation was stored beside an earlier one, its message queued
\* behind the earlier one's
C7_Witness ==
    /\ last.op = "delegateTask"
    /\ Cardinality(DOMAIN delegations) = 2
    /\ Len(mailbox(messages, last.input.toAgent)) = 2
    /\ delegations[last.ret.taskId].status = "pending"

\* C8: for a stored delegation, updateDelegation(taskId, 'completed', result)
\* makes getDelegation(taskId) return status 'completed' with the supplied
\* result, and adds exactly one 'response' message, from the delegation's
\* toAgent and naming taskId, to the mailbox of its fromAgent and to no other
\* mailbox.
C8_CompletedIsStoredAndAnswered ==
    [][ (/\ last'.op = "updateDelegation"
         /\ last'.threw = ""
         /\ last'.status = "completed"
         /\ last'.result # JsUndefined) =>
          LET t == last'.taskId
              d == delegations[t]
              old == mailbox(messages, d.fromAgent)
              new == mailbox(messages', d.fromAgent)
          IN /\ getDelegation(delegations', t).status = "completed"
             /\ getDelegation(delegations', t).result = last'.result
             /\ Len(new) = Len(old) + 1
             /\ SubSeq(new, 1, Len(old)) = old
             /\ new[Len(new)].type = "response"
             /\ new[Len(new)].from = d.toAgent
             /\ new[Len(new)].payload.taskId = t
             /\ \A p \in Parties \ {d.fromAgent} :
                   mailbox(messages', p) = mailbox(messages, p) ]_vars

\* C9: updateDelegation overwrites the stored result exactly when a result
\* argument is supplied and the stored error exactly when an error argument
\* is supplied: a supplied value, whatever it is, is the stored value after
\* the call, and an omitted argument leaves the stored field as it was.
C9_SuppliedFieldsOverwrite ==
    [][ (last'.op = "updateDelegation" /\ last'.threw = "") =>
          LET t == last'.taskId IN
          /\ delegations'[t].result =
                IF last'.result # JsUndefined THEN last'.result
                ELSE delegations[t].result
          /\ delegations'[t].error =
                IF last'.error # JsUndefined THEN last'.error
                ELSE delegations[t].error ]_vars

\* C10: a workflow whose step k finds no agent fails as a whole: the step's
\* discovery is empty exactly when no stored agent carries its tag, the call
\* then ends with an error and no list of results, stores no delegation and
\* sends no message for step k, and has run k discoveries and k - 1
\* delegations; nothing more is done for the call.
C10_WorkflowFailsWhole ==
    [][ /\ (wf'.pc = "discovered" /\ wf' # wf) =>
              (noAgentFound(wf'.found) <=>
                  \A a \in Range(agents) :
                      wf'.steps[wf'.idx].agentCapability \notin TagsOf(a))
        /\ (wf.pc = "discovered" /\ noAgentFound(wf.found) /\ wf' # wf) =>
              /\ wf'.pc = "failed"
              /\ wf'.out.kind = "error"
              /\ "results" \notin DOMAIN wf'.out
              /\ wf'.discovered = wf.idx
              /\ Len(wf'.delegated) = wf.idx - 1
              /\ delegations' = delegations
              /\ messages' = messages
        /\ (wf.pc = "failed" /\ wf' # wf) =>
              /\ last'.op = "composeWorkflow"
              /\ last'.at = "start"
              /\ wf'.delegated = <<>>
        /\ wf'.pc = "failed" =>
              /\ wf'.out.kind = "error"
              /\ wf'.discovered = wf'.idx
              /\ Len(wf'.delegated) = wf'.idx - 1 ]_vars

\* a three-step workflow failed at its second step, after delegating the
\* first
C10_Witness ==
    /\ wf.pc = "failed"
    /\ Len(wf.steps) = 3
    /\ wf.idx = 2
    /\ wf.discovered = 2
    /\ Len(wf.delegated) = 1
    /\ Len(wf.results) = 1
    /\ wf.out.kind = "error"

Returned == tool.out.value

\* the finished call is the latest step and that step saw a rejection
JustRejected ==
    /\ last.op = tool.name
    /\ "outcome" \in DOMAIN last
    /\ ~last.outcome.ok

\* C12 (as stated): every finished tool call returned a value, and a value
\* with success false carries the error message in a top-level error field
\* and echoes the requested chain.
C12_UniformErrorEnvelope ==
    tool.pc = "done" =>
        /\ tool.out.kind = "return"
        /\ ~Returned.success =>
              /\ "error" \in DOMAIN Returned
              /\ "chain" \in DOMAIN Returned
              /\ Returned.chain = tool.params.chain

\* C12 (amended): every finished tool call returned a value with a success
\* flag, never an exception.  A failed contract read, Aave read or Uniswap
\* read returns the message in a top-level error field and echoes the chain;
\* a failed simulation echoes the chain and carries the message in
\* simulation.error, with no top-level error field; a failed transaction
\* build carries the message in a top-level error field and no chain; the
\* multi-chain balance never returns a failure.
C12_ErrorsAreReturned ==
    tool.pc = "done" =>
        /\ tool.out.kind = "return"
        /\ "success" \in DOMAIN Returned
        /\ JustRejected /\ tool.name # "getMultiChainBalance" => ~Returned.success
        /\ ~Returned.success =>
              CASE tool.name \in {"callContract", "getAaveData", "getUniswapPool"} ->
                      /\ "error" \in DOMAIN Returned
                      /\ "chain" \in DOMAIN Returned
                      /\ Returned.chain = tool.params.chain
                      /\ JustRejected => Returned.error = last.outcome.message
                [] tool.name = "simulateTransaction" ->
                      /\ "error" \notin DOMAIN Returned
                      /\ "chain" \in DOMAIN Returned
                      /\ Returned.chain = tool.params.chain
                      /\ ~Returned.simulation.willSucceed
                      /\ JustRejected =>
                            Returned.simulation.error = last.outcome.message
                [] tool.name = "buildTransaction" ->
                      /\ "chain" \notin DOMAIN Returned
                      /\ "error" \in DOMAIN Returned
                      /\ JustRejected => Returned.error = last.outcome.message
                [] OTHER -> FALSE

\* a Uniswap pool read failed on a transport error after some of its reads
\* had succeeded, and returned the failure
C12_Witness ==
    /\ tool.pc = "done"
    /\ tool.name = "getUniswapPool"
    /\ JustRejected
    /\ last.outcome.message = "fetch failed"
    /\ Cardinality(tool.pending) = 2
    /\ ~Returned.success
    /\ Returned.error = "fetch failed"
    /\ Returned.chain = "mainnet"

\* the chains of the multi-chain balance request in progress
Requested == tool.params.chains

\* the position of read i in the order of completion
CompletedAt(i) == CHOOSE k \in DOMAIN tool.completed : tool.completed[k] = i

\* the read of chain c that completed last
LastReadOf(c) ==
    CHOOSE i \in DOMAIN Requested :
        /\ Requested[i] = c
        /\ \A j \in DOMAIN Requested :
              Requested[j] = c => CompletedAt(j) <= CompletedAt(i)

\* the text a slot must hold for the outcome of its chain's read
SlotText(outcome) ==
    CASE outcome = Fulfilled(0) -> "0"
      [] outcome = Fulfilled(1500) -> "1500"
      [] outcome = Rejected("execution reverted") -> "Error: execution reverted"
      [] outcome = Rejected("fetch failed") -> "Error: fetch failed"

\* C13: a finished getMultiChainBalance call returned success true with
\* exactly one slot for each requested chain; the slot of a chain holds the
\* error text of its read when that read threw and the decimal digits of its
\* balance otherwise, whatever the reads of the other chains did, also when
\* every read threw.
C13_PerChainIsolation ==
    (tool.pc = "done" /\ tool.name = "getMultiChainBalance") =>
        /\ Returned.success
        /\ {Returned.balances[k].key : k \in DOMAIN Returned.balances} = Range(Requested)
        /\ Len(Returned.balances) = Cardinality(Range(Requested))
        /\ \A k \in DOMAIN Returned.balances :
              Returned.balances[k].value =
                  SlotText(tool.outcomes[LastReadOf(Returned.balances[k].key)])

\* two chains were asked and the reads of both threw, for different reasons
C13_Witness ==
    /\ tool.pc = "done"
    /\ tool.name = "getMultiChainBalance"
    /\ Requested = <<"base", "polygon">>
    /\ tool.outcomes[1] = Rejected("fetch failed")
    /\ tool.outcomes[2] = Rejected("execution reverted")
    /\ Returned.success
    /\ Len(Returned.balances) = 2

\* the members of seq in the order of their first occurrence
RECURSIVE FirstSeen(_)
FirstSeen(seq) ==
    IF seq = <<>> THEN <<>>
    ELSE LET front == FirstSeen(SubSeq(seq, 1, Len(seq) - 1))
         IN IF seq[Len(seq)] \in Range(front) THEN front
            ELSE Append(front, seq[Len(seq)])

\* the chains listed by the returned balances object, in its key order
Listed == [k \in DOMAIN Returned.balances |-> Returned.balances[k].key]

\* C14 (as stated): the balances object of a finished getMultiChainBalance
\* call lists the chains in the order of the request, however the reads
\* completed.
C14_EntriesInRequestOrder ==
    (tool.pc = "done" /\ tool.name = "getMultiChainBalance") =>
        Listed = FirstSeen(Requested)

\* C14 (amended): the balances object of a finished getMultiChainBalance call
\* lists the chains in the order in which their reads completed (a chain asked
\* twice stays where its first completed read put it); it lists them in
\* request order exactly when the reads completed in that order.
C14_EntriesInCompletionOrder ==
    (tool.pc = "done" /\ tool.name = "getMultiChainBalance") =>
        /\ Listed = FirstSeen([k \in DOMAIN tool.completed |->
                                  Requested[tool.completed[k]]])
        /\ (Requested = FirstSeen(Requested)) =>
              (Listed = Requested <=>
                  tool.completed = [k \in DOMAIN Requested |-> k])

\* base and mainnet were asked in that order, the read of mainnet completed
\* first, and the result lists mainnet first
C14_Witness ==
    /\ tool.pc = "done"
    /\ tool.name = "getMultiChainBalance"
    /\ Requested = <<"base", "mainnet">>
    /\ tool.completed = <<2, 1>>
    /\ Listed = <<"mainnet", "base">>
    /\ Returned.balances[2].value = "1500"

\* C15 (as stated): a finished Uniswap pool read has not failed as a whole,
\* whatever happened to its five reads.
C15_PoolReadsIsolated ==
    (tool.pc = "done" /\ tool.name = "getUniswapPool") => Returned.success

\* C15 (amended): a finished Uniswap pool read succeeded exactly when all
\* five reads were fulfilled, and then its data are the values of the reads
\* by their position in the array; as soon as one read is rejected the call
\* returns a failure with that rejection's message, the chain and the
\* protocol, and without any data of the reads that had been fulfilled.
C15_PoolReadsAllOrNothing ==
    (tool.pc = "done" /\ tool.name = "getUniswapPool") =>
        /\ Returned.success <=> tool.fulfilled = DOMAIN PoolReads
        /\ Returned.success =>
              /\ Returned.data.token0 = tool.values[1]
              /\ Returned.data.token1 = tool.values[2]
              /\ Returned.data.currentTick = tool.values[5][1]
        /\ ~Returned.success =>
              /\ "data" \notin DOMAIN Returned
              /\ Returned.error \in ErrorMessages
              /\ Returned.protocol = "Uniswap V3"
              /\ JustRejected =>
                    /\ Returned.error = last.outcome.message
                    /\ last.read \notin tool.fulfilled

\* the fee read was rejected after the four other reads had been fulfilled,
\* and the call failed
C15_Witness ==
    /\ tool.pc = "done"
    /\ tool.name = "getUniswapPool"
    /\ tool.fulfilled = {1, 2, 4, 5}
    /\ JustRejected
    /\ last.read = 3
    /\ ~Returned.success

\* the two requests of a simulation
DryRun == request(tool.params.chain, "call", tool.params.to)
GasEstimate == request(tool.params.chain, "estimateGas", tool.params.to)

\* C16: simulateTransaction sends the dry-run call first and nothing else
\* while it is outstanding; when the call is rejected the simulation ends
\* there, without a gas estimate, and reports willSucceed false with the
\* message; when the call is fulfilled the gas estimate is sent; when the gas
\* estimate settles the simulation reports willSucceed true, with the data
\* of the call and the decimal digits of the estimate, exactly when the
\* estimate was fulfilled, and willSucceed false with the message otherwise.
\* The failure value has the same fields whatever failed.
C16_SimulationOrder ==
    [][ last'.op = "simulateTransaction" =>
        /\ last'.at = "start" =>
              \/ tool'.pc = "calling" /\ tool'.rpc = <<DryRun'>>
              \/ /\ tool'.pc = "done" /\ tool'.rpc = <<>>
                 /\ ~tool'.out.value.simulation.willSucceed
        /\ (last'.at = "call" /\ ~last'.outcome.ok) =>
              /\ tool.pc = "calling"
              /\ tool'.pc = "done"
              /\ tool'.rpc = <<DryRun>>
              /\ tool'.out.value.simulation =
                    [willSucceed |-> FALSE, error |-> last'.outcome.message]
        /\ (last'.at = "call" /\ last'.outcome.ok) =>
              /\ tool.pc = "calling"
              /\ tool.rpc = <<DryRun>>
              /\ tool'.pc = "estimating"
              /\ tool'.rpc = <<DryRun, GasEstimate>>
        /\ last'.at = "gas" =>
              /\ tool.pc = "estimating"
              /\ tool'.pc = "done"
              /\ tool'.rpc = <<DryRun, GasEstimate>>
              /\ tool'.out.value.simulation.willSucceed <=> last'.outcome.ok
              /\ last'.outcome.ok =>
                    /\ tool'.out.value.success
                    /\ tool'.out.value.simulation.result = "0xbeef"
                    /\ last'.outcome.value = 21000 =>
                          tool'.out.value.simulation.estimatedGas = "21000"
                    /\ last'.outcome.value = 54321 =>
                          tool'.out.value.simulation.estimatedGas = "54321"
              /\ ~last'.outcome.ok =>
                    /\ ~tool'.out.value.success
                    /\ tool'.out.value.simulation =
                          [willSucceed |-> FALSE, error |-> last'.outcome.message]
        /\ tool'.pc = "done" =>
              (tool'.out.value.simulation.willSucceed <=>
                  (Len(tool'.rpc) = 2 /\ last'.at = "gas" /\ last'.outcome.ok)) ]_vars

\* a simulation whose dry-run call reverted: it ended with willSucceed false
\* and without having asked for a gas estimate
C16_Witness ==
    /\ tool.pc = "done"
    /\ tool.name = "simulateTransaction"
    /\ tool.rpc = <<DryRun>>
    /\ last.op = "simulateTransaction"
    /\ last.at = "call"
    /\ last.outcome = Rejected("execution reverted")
    /\ ~Returned.simulation.willSucceed
    /\ Returned.simulation.error = "execution reverted"

\* the finished call is a transaction build; Built is its transaction
BuildDone == tool.pc = "done" /\ tool.name = "buildTransaction"
Built == Returned.transaction

\* C17 (as stated): a finished buildTransaction call issued no RPC request,
\* whether it succeeded or failed; on success transaction.value is the
\* supplied value string when one was supplied and "0" when it was omitted,
\* transaction.to is the given contract address and chainId is the id of the
\* requested chain.
C17_BuildKeepsSuppliedValue ==
    BuildDone =>
        /\ tool.rpc = <<>>
        /\ Returned.success =>
              /\ Built.value = IF tool.params.value = JsUndefined THEN "0"
                               ELSE tool.params.value.s
              /\ Built.to = tool.params.contractAddress
              /\ Built.chainId = chainId(tool.params.chain)

\* C17 (amended): a finished buildTransaction call issued no RPC request,
\* whether it succeeded or failed; on success transaction.value is the
\* supplied value string when a non-empty one was supplied and "0" when the
\* value was omitted or is the empty string, transaction.to is the given
\* contract address and chainId is the id of the requested chain; a failed
\* build returns no transaction.
C17_BuildDefaultsEmptyValue ==
    BuildDone =>
        /\ tool.rpc = <<>>
        /\ Returned.success <=> last.outcome.ok
        /\ ~Returned.success => "transaction" \notin DOMAIN Returned
        /\ Returned.success =>
              /\ tool.params.value = JsUndefined => Built.value = "0"
              /\ tool.params.value = JsStr("") => Built.value = "0"
              /\ tool.params.value = JsStr("25") => Built.value = "25"
              /\ Built.to = tool.params.contractAddress
              /\ Built.data = last.outcome.value
              /\ tool.params.chain = "base" => Built.chainId = 8453
              /\ tool.params.chain = "mainnet" => Built.chainId = 1
              /\ tool.params.chain = "arbitrum" => Built.chainId = 42161
              /\ tool.params.chain = "optimism" => Built.chainId = 10
              /\ tool.params.chain = "polygon" => Built.chainId = 137

\* a transaction was built for Polygon with the empty string as its value
C17_Witness ==
    /\ BuildDone
    /\ Returned.success
    /\ tool.params.value = JsStr("")
    /\ tool.params.chain = "polygon"
    /\ Built.value = "0"
    /\ Built.chainId = 137
    /\ tool.rpc = <<>>

\* r / 1e27 * 100 to two decimals, written out for each rate of RayRates; a
\* rate whose percentage ends in exactly half a hundredth has both neighbours
RoundedPercent(r) ==
    CASE r = [m |-> 0, e |-> 22] -> {"0.00%"}
      [] r = [m |-> 5, e |-> 25] -> {"5.00%"}
      [] r = [m |-> 314, e |-> 23] -> {"3.14%"}
      [] r = [m |-> 1234, e |-> 22] -> {"1.23%"}
      [] r = [m |-> 1235, e |-> 22] -> {"1.23%", "1.24%"}
      [] r = [m |-> 1236, e |-> 22] -> {"1.24%"}
      [] r = [m |-> 9999, e |-> 20] -> {"0.10%"}
      [] r = [m |-> 12, e |-> 26] -> {"120.00%"}

\* C18: a successful getAaveData call reports as supplyAPY the rate at
\* position 2 of the reserve data, and as borrowAPY the rate at position 4,
\* each divided by 1e27, times 100, rounded to two decimals and followed by
\* '%'; a currentLiquidityRate of 5e25 gives "5.00%".
C18_RayToPercent ==
    (tool.pc = "done" /\ tool.name = "getAaveData" /\ last.op = "getAaveData"
        /\ last.outcome.ok) =>
        /\ Returned.success
        /\ Returned.data.supplyAPY \in RoundedPercent(last.outcome.value[2])
        /\ Returned.data.borrowAPY \in RoundedPercent(last.outcome.value[4])
        /\ last.outcome.value[2] = [m |-> 5, e |-> 25] =>
              Returned.data.supplyAPY = "5.00%"

\* a reserve with a liquidity rate of 5e25 and a borrow rate of 1.236e25
C18_Witness ==
    /\ tool.pc = "done"
    /\ tool.name = "getAaveData"
    /\ last.op = "getAaveData"
    /\ last.outcome.ok
    /\ last.outcome.value[2] = [m |-> 5, e |-> 25]
    /\ last.outcome.value[4] = [m |-> 1236, e |-> 22]
    /\ Returned.data.supplyAPY = "5.00%"
    /\ Returned.data.borrowAPY = "1.24%"

\* rawFee / 10000 followed by '%', written out for each fee of Fees
FeeText(fee) ==
    CASE fee = 1 -> "0.0001%"
      [] fee = 100 -> "0.01%"
      [] fee = 500 -> "0.05%"
      [] fee = 3000 -> "0.3%"
      [] fee = 10000 -> "1%"
      [] fee = 12345 -> "1.2345%"

\* C19: a successful getUniswapPool call reports the fee as the raw fee
\* divided by 10000 followed by '%', with as many decimals as the quotient
\* has and no more: 3000 gives "0.3%", 500 gives "0.05%", 10000 gives "1%".
C19_FeePercent ==
    (tool.pc = "done" /\ tool.name = "getUniswapPool" /\ Returned.success) =>
        /\ Returned.data.fee = FeeText(tool.values[3])
        /\ tool.values[3] = 3000 => Returned.data.fee = "0.3%"
        /\ tool.values[3] = 500 => Returned.data.fee = "0.05%"
        /\ tool.values[3] = 10000 => Returned.data.fee = "1%"

\* a pool whose fee read returned 3000, the fee read completing last
C19_Witness ==
    /\ tool.pc = "done"
    /\ tool.name = "getUniswapPool"
    /\ Returned.success
    /\ tool.values[3] = 3000
    /\ last.op = "getUniswapPool"
    /\ last.read = 3
    /\ Returned.data.fee = "0.3%"

\* C20 (as stated): right after the messages of a registered agent were
\* received, and right after a message was delivered to a registered agent,
\* that agent's lastSeen is the current time.
C20_SeenOnReceipt ==
    /\ (last.op = "receiveMessages" /\ MapHas(agents, last.id)) =>
          MapGet(agents, last.id).lastSeen = now
    /\ (last.op = "sendMessage" /\ MapHas(agents, last.message.to)) =>
          MapGet(agents, last.message.to).lastSeen = now

\* C20 (amended): sendMessage and receiveMessages leave the agent store as
\* it is, lastSeen included; the lastSeen of a stored agent changes only in a
\* registerAgent or updateReputation call for its id, which sets it to the
\* current time.
C20_SeenOnlyByRegistryCalls ==
    [][ /\ last'.op \in {"sendMessage", "receiveMessages"} => agents' = agents
        /\ \A i \in DOMAIN agents :
              (i \in DOMAIN agents' /\ agents'[i].lastSeen # agents[i].lastSeen) =>
                  /\ last'.op \in {"registerAgent", "updateReputation"}
                  /\ last'.id = agents[i].id
                  /\ agents'[i].id = agents[i].id
                  /\ agents'[i].lastSeen = now ]_vars

\* an agent registered at time 0 received a message at time 1 and its
\* lastSeen is still 0
C20_Witness ==
    /\ last.op = "receiveMessages"
    /\ last.id = "a1"
    /\ Len(last.ret) = 1
    /\ MapHas(agents, "a1")
    /\ MapGet(agents, "a1").lastSeen = 0
    /\ now = 1

(* ---------------------- claims on the registry, continued -------------- *)
\* the ids of the capabilities an agent registered with
CapabilityIds(agent) == {agent.capabilities[c].id : c \in DOMAIN agent.capabilities}

\* C21: discoverAgents(x) returns every stored agent that has a capability
\* whose id is x; so after registering an agent with the capability
\* 'defi-yield', discoverAgents('defi-yield') returns that agent.
C21_DiscoverByCapabilityId ==
    last.op = "discoverAgents" =>
        \A a \in Range(agents) :
            last.tag \in CapabilityIds(a) => a \in Range(last.ret)

\* C22: a stored delegation keeps its status, result and error (and
\* everything else) in every step except a successful updateDelegation call
\* for its own taskId, be the step a registerAgent, discoverAgents,
\* sendMessage, receiveMessages, updateReputation or composeWorkflow step, a
\* delegateTask, or an updateDelegation for another taskId.
C22_StatusOnlyByUpdate ==
    [][ \A t \in DOMAIN delegations :
            /\ t \in DOMAIN delegations'
            /\ (delegations'[t] # delegations[t]) =>
                  /\ last'.op = "updateDelegation"
                  /\ last'.taskId = t
                  /\ last'.threw = ""
                  /\ delegations'[t].taskId = delegations[t].taskId
                  /\ delegations'[t].fromAgent = delegations[t].fromAgent
                  /\ delegations'[t].toAgent = delegations[t].toAgent
                  /\ delegations'[t].task = delegations[t].task ]_vars

\* a workflow step delegated a new task while another delegation was stored
\* as completed, and that one is still completed
C22_Witness ==
    /\ last.op = "composeWorkflow"
    /\ last.at = "delegate"
    /\ \E t \in DOMAIN delegations :
          /\ t # last.ret.taskId
          /\ delegations[t].status = "completed"
          /\ delegations[t].result = JsStr("done")
          /\ delegations[t].fromAgent = "a1"

\* the ids of the agent store in its iteration order
StoreOrder(ags) == [i \in DOMAIN ags |-> ags[i].id]

\* C23: the iteration order of the agent store is the order in which the ids
\* were first inserted: a step only ever appends a new id and never moves a
\* stored one, re-registrations and reputation updates included.  A
\* discoverAgents call lists agents of equal reputation in that order, and the
\* agent a workflow step picks is, among the matching agents of highest
\* reputation, the one that comes first in that order.
C23_TiesInInsertionOrder ==
    [][ /\ Len(agents') >= Len(agents)
        /\ SubSeq(StoreOrder(agents'), 1, Len(agents)) = StoreOrder(agents)
        /\ last'.op = "discoverAgents" =>
              \A i, j \in DOMAIN last'.ret :
                  (i < j /\ last'.ret[i].reputation = last'.ret[j].reputation) =>
                      MapIndex(agents, last'.ret[i].id) < MapIndex(agents, last'.ret[j].id)
        /\ (last'.op = "composeWorkflow" /\ wf'.pc = "discovered"
                /\ ~noAgentFound(wf'.found)) =>
              \A a \in Range(agents) :
                  (/\ wf'.steps[wf'.idx].agentCapability \in TagsOf(a)
                   /\ a.reputation = MapGet(agents, wf'.found[1].id).reputation) =>
                      MapIndex(agents, wf'.found[1].id) <= MapIndex(agents, a.id) ]_vars

\* a2 was registered first and re-registered after a1; both have reputation
\* 100 and a workflow step found a2 first
C23_Witness ==
    /\ wf.pc = "discovered"
    /\ Len(wf.found) = 2
    /\ wf.found[1].id = "a2"
    /\ Len(agents) = 2
    /\ agents[1].id = "a2"
    /\ agents[1].registeredAt > agents[2].registeredAt
    /\ agents[1].reputation = agents[2].reputation

\* C24: updateDelegation validates no status order.  Whatever the status of a
\* stored delegation, a call for it with any status of the set can be made
\* (whenever the bounded mailboxes have room) and succeeds: this is evaluated
\* in the state before each receiveMessages("a1") step, a step every state
\* has, so in every reachable state.  Every call for a
\* stored task, one that re-sets the current status included, does not throw,
\* leaves the record with the status of the call, and appends exactly one
\* message, a response for that task, to the originator's mailbox.
C24_AnyStatusFollowsAny ==
    [][ /\ \A t \in DOMAIN delegations, s \in StatusSet :
              (RoomToSend /\ last'.op = "receiveMessages" /\ last'.id = "a1") =>
                  ENABLED ( /\ UpdateDelegation(t, s, JsUndefined, JsUndefined)
                            /\ last'.threw = ""
                            /\ delegations'[t].status = s )
        /\ (last'.op = "updateDelegation" /\ last'.taskId \in DOMAIN delegations) =>
              LET t == last'.taskId
                  originator == delegations[t].fromAgent
              IN /\ last'.threw = ""
                 /\ delegations'[t].status = last'.status
                 /\ Len(mailbox(messages', originator))
                        = Len(mailbox(messages, originator)) + 1
                 /\ SubSeq(mailbox(messages', originator), 1,
                           Len(mailbox(messages, originator)))
                        = mailbox(messages, originator)
                 /\ LET m == mailbox(messages', originator)[Len(mailbox(messages', originator))]
                    IN /\ m.type = "response"
                       /\ m.payload.taskId = t
                       /\ m.payload.status = last'.status
                 /\ \A p \in Parties \ {originator} :
                        mailbox(messages', p) = mailbox(messages, p) ]_vars

\* a completed task has been moved back to pending; each of the two calls
\* sent its response to the originator
C24_Witness ==
    /\ last.op = "updateDelegation"
    /\ last.threw = ""
    /\ last.status = "pending"
    /\ delegations[last.taskId].status = "pending"
    /\ Len(mailbox(messages, "a1")) = 2
    /\ \A i \in 1..2 :
          /\ mailbox(messages, "a1")[i].type = "response"
          /\ mailbox(messages, "a1")[i].payload.taskId = last.taskId
    /\ mailbox(messages, "a1")[1].payload.status = "completed"
    /\ mailbox(messages, "a1")[2].payload.status = "pending"

\* the response a successful updateDelegation call has just appended
LastResponse ==
    LET box == mailbox(messages, delegations[last.taskId].fromAgent)
    IN box[Len(box)]

\* C25 (as stated): after every updateDelegation call the payload of its
\* response has the status, result and error stored in the delegation record
\* after the call
C25_PayloadIsStoredState ==
    (last.op = "updateDelegation" /\ last.threw = "") =>
        /\ LastResponse.payload.status = delegations[last.taskId].status
        /\ LastResponse.payload.result = delegations[last.taskId].result
        /\ LastResponse.payload.error = delegations[last.taskId].error

\* C25 (amended): the payload of the response carries the arguments of the
\* call.  Its status is the stored status; its result (error) is the stored
\* one exactly when the argument passes `if (result)` (`if (error)`), and
\* otherwise the record keeps the result (error) it had before the call.
C25_PayloadIsArguments ==
    [][ (last'.op = "updateDelegation" /\ last'.threw = "") =>
          LET t == last'.taskId
              box == mailbox(messages', delegations[t].fromAgent)
              payload == box[Len(box)].payload
          IN /\ payload = [taskId |-> t, status |-> last'.status,
                           result |-> last'.result, error |-> last'.error]
             /\ delegations'[t].status = payload.status
             /\ delegations'[t].result =
                   IF ToBoolean(last'.result) THEN payload.result
                   ELSE delegations[t].result
             /\ delegations'[t].error =
                   IF ToBoolean(last'.error) THEN payload.error
                   ELSE delegations[t].error ]_vars

\* a task completed with a result is set to in-progress by a call that omits
\* the result: the record keeps "done", the response carries undefined
C25_Witness ==
    /\ last.op = "updateDelegation"
    /\ last.threw = ""
    /\ last.status = "in-progress"
    /\ delegations[last.taskId].result = JsStr("done")
    /\ LastResponse.type = "response"
    /\ LastResponse.payload.taskId = last.taskId
    /\ LastResponse.payload.result = JsUndefined

\* C26: no step removes an agent or a delegation: every registered id is
\* still in the agent store after the step and getDelegation still returns
\* the record of every stored task id.  A mailbox loses messages only in a
\* receiveMessages call for its recipient, which empties it.
C26_NothingRemoved ==
    [][ /\ \A i \in DOMAIN agents : MapHas(agents', agents[i].id)
        /\ \A t \in DOMAIN delegations :
              /\ getDelegation(delegations', t) # JsUndefined
              /\ getDelegation(delegations', t).taskId = t
        /\ \A p \in Parties :
              \/ /\ Len(mailbox(messages', p)) >= Len(mailbox(messages, p))
                 /\ SubSeq(mailbox(messages', p), 1, Len(mailbox(messages, p)))
                        = mailbox(messages, p)
              \/ /\ last'.op = "receiveMessages"
                 /\ last'.id = p
                 /\ mailbox(messages', p) = <<>> ]_vars

\* a mailbox has just been emptied while the agent, whose reputation was
\* lowered, and two delegations, one of them completed, are still stored
C26_Witness ==
    /\ last.op = "receiveMessages"
    /\ last.ret # <<>>
    /\ mailbox(messages, last.id) = <<>>
    /\ MapHas(agents, "a1")
    /\ MapGet(agents, "a1").reputation = 0
    /\ Cardinality(DOMAIN delegations) = 2
    /\ \E t \in DOMAIN delegations : delegations[t].status = "completed"

\* the last message of a mailbox
LastOf(box) == box[Len(box)]

\* C27: the store write and the message append of an operation happen in one
\* step, so no other operation runs between them.  The step that stores a new
\* delegation appends its 'delegation' message to the target's mailbox, and
\* the step that changes a stored delegation appends the 'response' for it to
\* the originator's mailbox; no state shows the one without the other.
C27_WriteAndAppendTogether ==
    [][ \A t \in DOMAIN delegations' :
          /\ t \notin DOMAIN delegations =>
                LET box == mailbox(messages', delegations'[t].toAgent)
                IN /\ Len(box) = Len(mailbox(messages, delegations'[t].toAgent)) + 1
                   /\ LastOf(box).type = "delegation"
                   /\ LastOf(box).payload.taskId = t
                   /\ LastOf(box).from = delegations'[t].fromAgent
          /\ (t \in DOMAIN delegations /\ delegations'[t] # delegations[t]) =>
                LET box == mailbox(messages', delegations'[t].fromAgent)
                IN /\ Len(box) = Len(mailbox(messages, delegations'[t].fromAgent)) + 1
                   /\ LastOf(box).type = "response"
                   /\ LastOf(box).payload.taskId = t
                   /\ LastOf(box).payload.status = delegations'[t].status ]_vars

\* while a workflow is suspended in its delegation call, another caller has
\* completed the delegation the workflow has just stored: its message was
\* already in the target's mailbox and the response is in the originator's
C27_Witness ==
    /\ wf.pc = "delegated"
    /\ last.op = "updateDelegation"
    /\ last.threw = ""
    /\ last.taskId = wf.delegated[Len(wf.delegated)]
    /\ delegations[last.taskId].status = "completed"
    /\ mailbox(messages, "a1") # <<>>
    /\ LastOf(mailbox(messages, "a1")).type = "delegation"
    /\ LastOf(mailbox(messages, "a1")).payload.taskId = last.taskId
    /\ mailbox(messages, Coordinator) # <<>>
    /\ LastOf(mailbox(messages, Coordinator)).type = "response"
    /\ LastOf(mailbox(messages, Coordinator)).payload.taskId = last.taskId

\* the messages a step sends to p, and the messages it returns to p
SentTo(p) ==
    IF last'.op = "receiveMessages" /\ last'.id = p THEN <<>>
    ELSE SubSeq(sentSince'[p], Len(sentSince[p]) + 1, Len(sentSince'[p]))
ReturnedTo(p) ==
    IF last'.op = "receiveMessages" /\ last'.id = p THEN last'.ret ELSE <<>>

\* C28: messages are conserved per recipient.  In every step and for every
\* recipient, registered or not, the messages returned to it followed by the
\* messages left in its mailbox are the messages that were in its mailbox
\* followed by the messages the step sent to it: a send appends to the
\* mailbox of its recipient only, a receive returns the whole mailbox of its
\* recipient only, and nothing else touches a mailbox.  Every message waits
\* in the mailbox of the recipient it is addressed to.
C28_MessagesConserved ==
    [][ \A p \in Parties :
          /\ ReturnedTo(p) \o mailbox(messages', p)
                = mailbox(messages, p) \o SentTo(p)
          /\ \A i \in DOMAIN mailbox(messages', p) : mailbox(messages', p)[i].to = p
          /\ \A i \in DOMAIN ReturnedTo(p) : ReturnedTo(p)[i].to = p
          /\ ReturnedTo(p) # <<>> => mailbox(messages', p) = <<>> ]_vars

\* a2 was never registered and has just received the delegation messages of
\* two tasks, in the order they were sent
C28_Witness ==
    /\ last.op = "receiveMessages"
    /\ last.id = "a2"
    /\ ~MapHas(agents, "a2")
    /\ Len(last.ret) = 2
    /\ \A i \in 1..2 : last.ret[i].type = "delegation" /\ last.ret[i].to = "a2"
    /\ last.ret[1].payload.taskId # last.ret[2].payload.taskId
    /\ last.ret = last.expected
    /\ mailbox(messages, "a2") = <<>>

\* the task ids of the 'delegation' messages waiting for an agent
Notified(p) ==
    { mailbox(messages, p)[i].payload.taskId :
        i \in { j \in DOMAIN mailbox(messages, p) :
                    mailbox(messages, p)[j].type = "delegation" } }

\* C29: a failed workflow is not rolled back.  The step that raises the
\* error for step k changes neither the delegation store nor any mailbox, and
\* each delegation the call stored was new to the store; so while the
\* workflow stands failed at step k, the k - 1 delegations of its earlier
\* steps are stored, pending, from 'coordinator', and their 'delegation'
\* messages wait in the mailboxes of their targets.
C29_FailureKeepsDelegations ==
    [][ /\ (last'.op = "composeWorkflow" /\ last'.at = "throw") =>
              /\ delegations' = delegations
              /\ messages' = messages
              /\ wf'.delegated = wf.delegated
        /\ (last'.op = "composeWorkflow" /\ last'.at = "delegate") =>
              /\ last'.ret.taskId \notin DOMAIN delegations
              /\ wf'.delegated = Append(wf.delegated, last'.ret.taskId)
        /\ wf'.pc = "failed" =>
              /\ Len(wf'.delegated) = wf'.idx - 1
              /\ \A i \in DOMAIN wf'.delegated :
                    LET t == wf'.delegated[i]
                    IN /\ t \in DOMAIN delegations'
                       /\ delegations'[t].status = "pending"
                       /\ delegations'[t].fromAgent = Coordinator
                       /\ \E j \in DOMAIN mailbox(messages', delegations'[t].toAgent) :
                             LET m == mailbox(messages', delegations'[t].toAgent)[j]
                             IN m.type = "delegation" /\ m.payload.taskId = t ]_vars

\* a workflow failed at its third step; the delegations of its first two
\* steps are the whole store, pending, and their messages wait
C29_Witness ==
    /\ wf.pc = "failed"
    /\ last.op = "composeWorkflow"
    /\ last.at = "throw"
    /\ wf.idx = 3
    /\ DOMAIN delegations = Range(wf.delegated)
    /\ Cardinality(DOMAIN delegations) = 2
    /\ \A t \in DOMAIN delegations : delegations[t].status = "pending"
    /\ Notified("a1") \cup Notified("a2") = DOMAIN delegations

\* the matching agents of highest reputation in a store
BestFor(ags, tag) ==
    { a.id : a \in { b \in Range(ags) :
                       /\ tag \in TagsOf(b)
                       /\ \A c \in Range(ags) :
                             tag \in TagsOf(c) => c.reputation <= b.reputation } }

\* C30: registerAgent and updateReputation calls that run while a workflow is
\* suspended change the choice of later steps only.  Each discovery of the
\* workflow picks a matching agent of highest reputation in the store of that
\* moment; a registerAgent or updateReputation step leaves the workflow and
\* its pending choice as they are; the delegation of a step goes to the agent
\* its own discovery picked, which is registered when the delegation is
\* stored; and no step changes the target of a stored delegation.
C30_InterleavingAffectsLaterSteps ==
    [][ /\ (last'.op = "composeWorkflow" /\ wf'.pc = "discovered"
                /\ ~noAgentFound(wf'.found)) =>
              /\ agents' = agents
              /\ wf'.found[1].id \in BestFor(agents, wf'.steps[wf'.idx].agentCapability)
        /\ last'.op \in {"registerAgent", "updateReputation"} => wf' = wf
        /\ (last'.op = "composeWorkflow" /\ last'.at = "delegate") =>
              /\ last'.ret.toAgent = wf.found[1].id
              /\ MapHas(agents', last'.ret.toAgent)
              /\ wf'.found = wf.found
        /\ \A t \in DOMAIN delegations :
              /\ t \in DOMAIN delegations'
              /\ delegations'[t].toAgent = delegations[t].toAgent ]_vars

\* the first step went to a1; the second step's discovery picked a2, a1's
\* reputation was then raised above a2's, and the second delegation has just
\* gone to a2 all the same
C30_Witness ==
    /\ last.op = "composeWorkflow"
    /\ last.at = "delegate"
    /\ last.step = 2
    /\ delegations[wf.delegated[1]].toAgent = "a1"
    /\ last.ret.toAgent = "a2"
    /\ MapHas(agents, "a1")
    /\ MapHas(agents, "a2")
    /\ MapGet(agents, "a1").reputation > MapGet(agents, "a2").reputation
    /\ "a2" \notin BestFor(agents, last.ret.task.type)

====
